---- MODULE Spec2Model ----
(***************************************************************************)
(* Model of the two on-disk patch scripts of llama-swap's                  *)
(* vllm-marlin-sm12x-build mod:                                            *)
(*   mods/vllm-marlin-sm12x-build/patch_transformers.py  (script "T")      *)
(*   mods/vllm-marlin-sm12x-build/patch_streaming.py     (script "S")      *)
(*                                                                         *)
(* A file's text is a sequence of chunks.  A chunk stands for one fixed    *)
(* piece of text (a line, or a block of lines) and records its leading     *)
(* indentation and whether a newline ends it.  The chunks are chosen so    *)
(* that every pattern, replacement and marker of the scripts is a          *)
(* sequence of whole chunks: substring search is search for a contiguous   *)
(* subsequence, str.replace is left-to-right non-overlapping replacement.  *)
(* Which marker strings a chunk's text contains is the table Mentions.     *)
(***************************************************************************)
EXTENDS Integers, Sequences, FiniteSets, TLC

\* ------------------------------------------------------------------ bounds
\* Number of files of the tree whose content differs from a pristine install.
MaxVaried == 1
\* Number of script runs in one behaviour.
MaxRuns == 2
\* Largest number of tool calls in the delta of one streamed chunk.
MaxToolCalls == 2
\* Number of times the guard module is executed in one process.
MaxLoads == 2
\* Largest number of positional arguments of a call of api.openai_inference.
MaxArgs == 2

\* ------------------------------------------------------------------ text
\* A chunk is <<indentation, text, ends in a newline>>.
L(ind, txt, nl) == <<ind, txt, nl>>
Ind(chunk) == chunk[1]
Txt(chunk) == chunk[2]
Nl(chunk) == chunk[3]
\* A chunk with no own indentation, ended by a newline.
A(txt) == L(0, txt, TRUE)

\* The marker strings (and other searched-for strings) a chunk's text contains.
Mentions(txt) ==
  CASE txt = "assume_32bit_indexing = True"      -> {"assume_32bit_indexing"}
    [] txt = "note: MoE fallback"                -> {"MoE fallback"}
    [] txt = "named_buffers"                     -> {"named_buffers"}
    [] txt = "self.ignore_unexpected_suffixes.append(e_score_correction_bias)"
                                                 -> {"e_score_marker"}
    [] txt = "_has_tc = (tool_calls"             -> {"_has_tc"}
    [] txt = "if content is not None and not _has_tc:" -> {"_has_tc"}
    [] txt = "elif _has_tc:"                     -> {"_has_tc"}
    [] txt = "# uses _has_tc"                    -> {"_has_tc"}
    [] txt = "new_tool_start"                    -> {"glm47 parser sends"}
    [] txt = "# glm47 parser sends"              -> {"glm47 parser sends"}
    [] txt = "    def "                          -> {"def "}
    [] txt = "_add_loadable_non_param_tensors"   -> {"_add_loadable_non_param_tensors"}
    [] OTHER                                     -> {}

\* Length in characters of a chunk's text (only the chunks of
\* model_executor/models/utils.py, where Patch 7 cuts a 200-character window).
ChunkLen(txt) ==
  CASE txt = "    def "                          -> 8
    [] txt = "_add_loadable_non_param_tensors"   -> 31
    [] txt = "method_head"                       -> 221
    [] txt = "old_doc_end"                       -> 13
    [] txt = "new_doc_end_and_loop_start"        -> 154
    [] txt = "named_buffers"                     -> 13
    [] txt = "new_loop_rest"                     -> 106
    [] txt = "method_tail"                       -> 529
    [] OTHER                                     -> 40

\* `marker in content`
HasText(content, marker) ==
  \E i \in DOMAIN content : marker \in Mentions(Txt(content[i]))

\* `pat in content` for a pattern made of whole chunks
Find(content, pat) ==
  {i \in 1..(Len(content) - Len(pat) + 1) :
      SubSeq(content, i, i + Len(pat) - 1) = pat}

Contains(content, pat) == Find(content, pat) # {}

Min(S) == CHOOSE x \in S : \A y \in S : x <= y
Max(S) == CHOOSE x \in S : \A y \in S : x >= y

\* str.replace(old, new, count): left to right, non-overlapping; count < 0
\* replaces every occurrence.
RECURSIVE Replace(_, _, _, _)
Replace(content, old, new, count) ==
  IF count = 0 \/ ~Contains(content, old)
  THEN content
  ELSE LET i == Min(Find(content, old))
       IN SubSeq(content, 1, i - 1) \o new
            \o Replace(SubSeq(content, i + Len(old), Len(content)), old, new, count - 1)

\* Number of non-overlapping occurrences, as str.count
RECURSIVE Count(_, _)
Count(content, pat) ==
  IF ~Contains(content, pat) THEN 0
  ELSE LET i == Min(Find(content, pat))
       IN 1 + Count(SubSeq(content, i + Len(pat), Len(content)), pat)

RECURSIVE Flatten(_)
Flatten(ss) == IF ss = <<>> THEN <<>> ELSE Head(ss) \o Flatten(Tail(ss))

\* ------------------------------------------------------------------ outcomes
\* What a printed status line tells the reader.  Patch 3's second message,
\* 'No extra=forbid found (already patched or not needed)', is one line for
\* two outcomes.
Applied == "applied"
Already == "already-applied"
NoTarget == "skipped-no-target"
NoMatch == "skipped-no-pattern-match"
AlreadyOrNotNeeded == "already-patched-or-not-needed"

Res(content, msg, write, alt) ==
  [content |-> content, msg |-> msg, write |-> write, alt |-> alt]

\* ------------------------------------------------------------------ Patch 3
ForbidSq == <<A("extra='forbid'")>>
IgnoreSq == <<A("extra='ignore'")>>
\* the same two with double quotes
ForbidDq == <<A("extra=dq:forbid")>>
IgnoreDq == <<A("extra=dq:ignore")>>

Patch3File(fc) ==
  IF Contains(fc, ForbidSq) \/ Contains(fc, ForbidDq)
  THEN Res(Replace(Replace(fc, ForbidSq, IgnoreSq, -1), ForbidDq, IgnoreDq, -1),
           Applied, TRUE, "")
  ELSE Res(fc, AlreadyOrNotNeeded, FALSE, "")

\* ------------------------------------------------------------------ Patch 4
old_raise == <<A("if matched_target is None: raise ValueError")>>
\* new_raise is the added comment and loop followed by old_raise itself; the
\* text 'MoE fallback' occurs nowhere in it.
new_raise == <<A("# Generic Linear fallback + for t in targets")>> \o old_raise
Patch4Marker == "MoE fallback"

Patch4Result(content) ==
  IF Contains(content, old_raise) /\ ~HasText(content, Patch4Marker)
  THEN Res(Replace(content, old_raise, new_raise, -1), Applied, TRUE, "")
  ELSE IF HasText(content, Patch4Marker)
       THEN Res(content, Already, FALSE, "")
       ELSE Res(content, NoMatch, FALSE, "")

\* ------------------------------------------------------------------ Patch 7
MethodName == "_add_loadable_non_param_tensors"
old_method == <<A("    def "), A(MethodName), A("method_head"),
                A("old_doc_end"), A("method_tail")>>
new_method == <<A("    def "), A(MethodName), A("method_head"),
                A("new_doc_end_and_loop_start"), A("named_buffers"),
                A("new_loop_rest"), A("method_tail")>>
Patch7Marker == "named_buffers"
WindowLen == 200

\* content.split(sep)[1] for a separator that is one chunk: the chunks between
\* the first and the second occurrence of sep.
SplitSecond(content, sep) ==
  LET S == {i \in DOMAIN content : sep \in Mentions(Txt(content[i]))}
      a == Min(S)
      rest == SubSeq(content, a + 1, Len(content))
      T == {i \in DOMAIN rest : sep \in Mentions(Txt(rest[i]))}
  IN IF T = {} THEN rest ELSE SubSeq(rest, 1, Min(T) - 1)

\* text.split(sep)[0]: the chunks before the first occurrence of sep.
SplitFirst(content, sep) ==
  LET S == {i \in DOMAIN content : sep \in Mentions(Txt(content[i]))}
  IN IF S = {} THEN content ELSE SubSeq(content, 1, Min(S) - 1)

RECURSIVE TextLen(_)
TextLen(content) ==
  IF content = <<>> THEN 0 ELSE ChunkLen(Txt(Head(content))) + TextLen(Tail(content))

\* marker in text[:n]
HasTextWithin(content, marker, n) ==
  \E i \in DOMAIN content :
     /\ marker \in Mentions(Txt(content[i]))
     /\ TextLen(SubSeq(content, 1, i)) <= n

Patch7Window(content) == SplitFirst(SplitSecond(content, MethodName), "def ")

Patch7Result(content) ==
  IF /\ Contains(content, old_method)
     /\ ~HasTextWithin(Patch7Window(content), Patch7Marker, WindowLen)
  THEN Res(Replace(content, old_method, new_method, -1), Applied, TRUE, "")
  ELSE IF HasText(content, Patch7Marker)
       THEN Res(content, Already, FALSE, "")
       ELSE Res(content, NoMatch, FALSE, "")

\* ------------------------------------------------------------------ Patch 8
Patch8Marker == "e_score_marker"
old_init_012 == <<A("super(MixtureOfExperts, self).__init__(...)")>>
old_init_015 == <<A("self.check_version(5.0.0.dev0)")>> \o old_init_012
\* what both replacements append to the pattern they matched
Patch8Added == <<A("# GLM-4.7-Flash has e_score_correction_bias"),
                 A("self.ignore_unexpected_suffixes.append(e_score_correction_bias)"),
                 A("# Ignore MTP layers + loop")>>
new_init_015 == old_init_015 \o Patch8Added
new_init_012 == old_init_012 \o Patch8Added

\* Patch 8 with the alternatives tried in the other order.
Patch8Swapped(content) ==
  IF ~HasText(content, Patch8Marker)
  THEN IF Contains(content, old_init_012)
       THEN Res(Replace(content, old_init_012, new_init_012, -1), Applied, TRUE, "0.12")
       ELSE IF Contains(content, old_init_015)
            THEN Res(Replace(content, old_init_015, new_init_015, -1), Applied, TRUE, "0.15")
            ELSE Res(content, NoMatch, FALSE, "")
  ELSE Res(content, Already, FALSE, "")

Patch8Result(content) ==
  IF ~HasText(content, Patch8Marker)
  THEN IF Contains(content, old_init_015)
       THEN Res(Replace(content, old_init_015, new_init_015, -1), Applied, TRUE, "0.15")
       ELSE IF Contains(content, old_init_012)
            THEN Res(Replace(content, old_init_012, new_init_012, -1), Applied, TRUE, "0.12")
            ELSE Res(content, NoMatch, FALSE, "")
  ELSE Res(content, Already, FALSE, "")

\* ------------------------------------------------------- Patch 11 and Fix 1
ContentCheck == "if content is not None:"
ToolCallsElif == "elif len(tool_calls) > 0:"
HasTcMarker == "_has_tc"

\* The loop over the lines keeps the index of the last line whose stripped
\* text is the anchor; 0 stands for None.
AnchorLine(lines, anchor) ==
  LET S == {i \in DOMAIN lines : Txt(lines[i]) = anchor}
  IN IF S = {} THEN 0 ELSE Max(S)

HasTcAssign == "_has_tc = (tool_calls"
HasTcAssignEnd == "           and len(tool_calls) > 0)"
NewContentCheck == "if content is not None and not _has_tc:"
NewToolCallsElif == "elif _has_tc:"

\* The rewrite with the content check left as it was.
RewriteLinesUnguarded(lines, c, t, endNl) ==
  Flatten([i \in DOMAIN lines |->
     IF i = c
     THEN <<L(Ind(lines[c]), HasTcAssign, TRUE),
            L(Ind(lines[c]), HasTcAssignEnd, TRUE),
            L(Ind(lines[c]), ContentCheck, endNl \/ Nl(lines[c]))>>
     ELSE IF i = t
          THEN <<L(Ind(lines[t]), NewToolCallsElif, endNl \/ Nl(lines[t]))>>
          ELSE <<lines[i]>>])

\* lines[c] becomes three lines at the same indentation, lines[t] one.  With
\* readlines() (Patch 11) the new lines end in a newline whatever the old line
\* ended in; with split/join (Fix 1) the line ending is the old one.
RewriteLines(lines, c, t, endNl) ==
  Flatten([i \in DOMAIN lines |->
     IF i = c
     THEN <<L(Ind(lines[c]), HasTcAssign, TRUE),
            L(Ind(lines[c]), HasTcAssignEnd, TRUE),
            L(Ind(lines[c]), NewContentCheck, endNl \/ Nl(lines[c]))>>
     ELSE IF i = t
          THEN <<L(Ind(lines[t]), NewToolCallsElif, endNl \/ Nl(lines[t]))>>
          ELSE <<lines[i]>>])

\* Patch 11 rewriting whichever of the two anchor lines it found.
Patch11Either(lines) ==
  LET content_check_line == AnchorLine(lines, ContentCheck)
      tool_calls_elif_line == AnchorLine(lines, ToolCallsElif)
  IN IF HasText(lines, HasTcMarker)
     THEN Res(lines, Already, FALSE, "")
     ELSE IF content_check_line # 0 \/ tool_calls_elif_line # 0
          THEN Res(RewriteLines(lines, content_check_line, tool_calls_elif_line, TRUE),
                   Applied, TRUE, "")
          ELSE Res(lines, NoMatch, FALSE, "")

Patch11Result(lines) ==
  LET content_check_line == AnchorLine(lines, ContentCheck)
      tool_calls_elif_line == AnchorLine(lines, ToolCallsElif)
  IN IF HasText(lines, HasTcMarker)
     THEN Res(lines, Already, FALSE, "")
     ELSE IF content_check_line # 0 /\ tool_calls_elif_line # 0
          THEN Res(RewriteLines(lines, content_check_line, tool_calls_elif_line, TRUE),
                   Applied, TRUE, "")
          ELSE Res(lines, NoMatch, FALSE, "")

\* Fix 1 without the test for _has_tc.
Fix1Unmarked(content) ==
  LET content_check_line == AnchorLine(content, ContentCheck)
      tool_calls_elif_line == AnchorLine(content, ToolCallsElif)
  IN IF content_check_line # 0 /\ tool_calls_elif_line # 0
     THEN Res(RewriteLines(content, content_check_line, tool_calls_elif_line, FALSE),
              Applied, TRUE, "")
     ELSE Res(content, NoMatch, FALSE, "")

Fix1Result(content) ==
  LET content_check_line == AnchorLine(content, ContentCheck)
      tool_calls_elif_line == AnchorLine(content, ToolCallsElif)
  IN IF ~HasText(content, HasTcMarker)
     THEN IF content_check_line # 0 /\ tool_calls_elif_line # 0
          THEN Res(RewriteLines(content, content_check_line, tool_calls_elif_line, FALSE),
                   Applied, TRUE, "")
          ELSE Res(content, NoMatch, FALSE, "")
     ELSE Res(content, Already, FALSE, "")

\* ------------------------------------------- the if/elif chain at run time
\* What serving.py does with a streamed chunk: delta.content is None, the
\* empty string or a text, delta.tool_calls is a list (given by its length).
Chunks == [content : {"None", "", "text"}, tool_calls : 0..MaxToolCalls]

\* _has_tc = (tool_calls and len(tool_calls) > 0), as a truth value
_has_tc(chunk) == chunk.tool_calls # 0 /\ chunk.tool_calls > 0

\* The condition of an if/elif line of the chain.
Holds(txt, chunk) ==
  CASE txt = ContentCheck     -> chunk.content # "None"
    [] txt = NewContentCheck  -> chunk.content # "None" /\ ~_has_tc(chunk)
    [] txt = ToolCallsElif    -> chunk.tool_calls > 0
    [] txt = NewToolCallsElif -> _has_tc(chunk)

\* The chain of the last content check of the text: the index of its `if`
\* line, of the first tool_calls `elif` line after it at its indentation (0:
\* none), and whether the two lines before the `if` assign _has_tc.
ChainIf(lines) ==
  Max({i \in DOMAIN lines : Txt(lines[i]) \in {ContentCheck, NewContentCheck}})
ChainElif(lines) ==
  LET E == {i \in DOMAIN lines :
              /\ i > ChainIf(lines)
              /\ Txt(lines[i]) \in {ToolCallsElif, NewToolCallsElif}
              /\ Ind(lines[i]) = Ind(lines[ChainIf(lines)])}
  IN IF E = {} THEN 0 ELSE Min(E)
Assigned(lines) ==
  /\ ChainIf(lines) > 2
  /\ Txt(lines[ChainIf(lines) - 2]) = HasTcAssign
  /\ Txt(lines[ChainIf(lines) - 1]) = HasTcAssignEnd
  /\ Ind(lines[ChainIf(lines) - 2]) = Ind(lines[ChainIf(lines)])

\* The branch the chain takes for a chunk.  A condition is evaluated left to
\* right; reading _has_tc where it was not assigned raises NameError.
Branch(lines, chunk) ==
  LET c == ChainIf(lines)
      e == ChainElif(lines)
  IN IF Txt(lines[c]) = NewContentCheck /\ chunk.content # "None" /\ ~Assigned(lines)
     THEN "NameError"
     ELSE IF Holds(Txt(lines[c]), chunk) THEN "content"
     ELSE IF e = 0 THEN "else"
     ELSE IF Txt(lines[e]) = NewToolCallsElif /\ ~Assigned(lines) THEN "NameError"
     ELSE IF Holds(Txt(lines[e]), chunk) THEN "tool_calls"
     ELSE "else"

\* ------------------------------------------------------------------ Fix 2
old_tool_start == <<A("old_tool_start")>>
new_tool_start == <<A("new_tool_start")>>
Fix2Marker == "glm47 parser sends"

Fix2Result(content) ==
  IF Contains(content, old_tool_start)
  THEN Res(Replace(content, old_tool_start, new_tool_start, 1), Applied, TRUE, "")
  ELSE IF HasText(content, Fix2Marker)
       THEN Res(content, Already, FALSE, "")
       ELSE Res(content, NoMatch, FALSE, "")

\* ------------------------------------------------------------------ Fix 0
Fix0Marker == "assume_32bit_indexing"
InstallConfig == <<A("install_config_module(sys.modules[__name__])")>>
Fix0Added == <<A("# Added by patch"), A("assume_32bit_indexing = True")>> \o InstallConfig

\* The file is written and 'added' is printed whenever the marker is absent,
\* whether or not replace() found the line.
Fix0Result(_ind_src) ==
  IF ~HasText(_ind_src, Fix0Marker)
  THEN Res(Replace(_ind_src, InstallConfig, Fix0Added, -1), Applied, TRUE, "")
  ELSE Res(_ind_src, Already, FALSE, "")

\* ------------------------------------------------------------------ the tree
\* Paths are sequences of components.  The roots stand for
\*   vllm_pip      /usr/local/lib/python3.12/dist-packages/vllm
\*   vllm_src      /opt/vllm/vllm-src/vllm
\*   ct_base       /usr/local/lib/python3.12/dist-packages/compressed_tensors
\*   torch         /usr/local/lib/python3.12/dist-packages/torch
\*   transformers  /usr/local/lib/python3.12/dist-packages/transformers
VllmCandidates == <<"vllm_pip", "vllm_src">>
ct_base == "ct_base"
OptionalRoots == {"vllm_pip", "vllm_src", "ct_base"}

QuantUtilsRel == <<"model_executor", "layers", "quantization", "compressed_tensors", "utils.py">>
ModelsUtilsRel == <<"model_executor", "models", "utils.py">>
MoeRel == <<"model_executor", "models", "transformers", "moe.py">>
ServingRel == <<"entrypoints", "anthropic", "serving.py">>
VllmRels == {QuantUtilsRel, ModelsUtilsRel, MoeRel, ServingRel}

Join(root, rel) == <<root>> \o rel
Dirname(path) == SubSeq(path, 1, Len(path) - 1)
Under(path, dir) == Len(dir) <= Len(path) /\ SubSeq(path, 1, Len(dir)) = dir

_ind_cfg_path == <<"torch", "_inductor", "config.py">>
fpath == Join("vllm_pip", ServingRel)
\* the *.py files os.walk(ct_base) finds, in the order it yields them
CtFiles == << <<"ct_base", "quantization", "quant_args.py">>,
              <<"ct_base", "config", "base.py">> >>

Paths == {_ind_cfg_path} \cup {CtFiles[i] : i \in DOMAIN CtFiles}
           \cup {Join(VllmCandidates[i], rel) : i \in DOMAIN VllmCandidates, rel \in VllmRels}

Rel(path) == Tail(path)

\* The contents a file can start with; the first is the pristine install.
Other == A("other text")
Fixtures(path) ==
  IF path = _ind_cfg_path THEN
    << <<Other>> \o InstallConfig,
       InstallConfig \o <<Other>> \o InstallConfig,
       <<A("assume_32bit_indexing = True")>> \o InstallConfig,
       <<Other>> >>
  ELSE IF path[1] = ct_base THEN
    << ForbidSq \o <<Other>> \o ForbidSq,
       ForbidSq \o ForbidDq,
       IgnoreSq \o <<Other>>,
       <<Other>> >>
  ELSE IF Rel(path) = QuantUtilsRel THEN
    << <<Other>> \o old_raise,
       old_raise \o <<Other>> \o old_raise,
       <<A("note: MoE fallback")>> \o old_raise,
       <<A("note: MoE fallback")>>,
       <<Other>> >>
  ELSE IF Rel(path) = ModelsUtilsRel THEN
    << <<Other>> \o old_method,
       old_method \o <<Other>> \o old_method,
       old_method \o <<A("named_buffers")>>,
       <<A(MethodName), Other, A("named_buffers")>> \o old_method,
       <<Other, A("named_buffers")>>,
       <<Other>> >>
  ELSE IF Rel(path) = MoeRel THEN
    << <<Other>> \o old_init_015,
       <<Other>> \o old_init_012,
       old_init_015 \o <<Other>> \o old_init_012,
       old_init_012 \o <<Other>> \o old_init_012,
       <<A("self.ignore_unexpected_suffixes.append(e_score_correction_bias)")>>
          \o old_init_015,
       <<Other>> >>
  ELSE
    << <<L(1, ContentCheck, TRUE), L(2, "other text", TRUE),
         L(1, ToolCallsElif, TRUE)>> \o old_tool_start,
       <<L(1, ContentCheck, TRUE), L(1, ToolCallsElif, TRUE),
         L(2, ContentCheck, TRUE), L(2, ToolCallsElif, TRUE)>>
          \o old_tool_start \o <<Other>> \o old_tool_start,
       <<L(1, ContentCheck, TRUE), Other>> \o old_tool_start,
       <<L(1, ToolCallsElif, TRUE), Other>>,
       <<A("# uses _has_tc"), L(1, ContentCheck, TRUE), L(1, ToolCallsElif, TRUE),
         A("# glm47 parser sends")>> \o old_tool_start,
       old_tool_start \o <<L(1, ContentCheck, TRUE), L(1, ToolCallsElif, FALSE)>>,
       <<L(1, ContentCheck, TRUE), L(1, ToolCallsElif, TRUE), L(2, ContentCheck, TRUE),
         Other>>,
       <<Other>> >>

File(data) == [exists |-> TRUE, data |-> data]
Absent == [exists |-> FALSE, data |-> <<>>]

\* Choice 0 is a missing file, choice k the k-th fixture.
MaxChoice == Max({Len(Fixtures(p)) : p \in Paths})
Content(path, k) == IF k = 0 THEN Absent ELSE File(Fixtures(path)[k])

\* Compiled-artifact caches: for a directory d, "pyc" is a *.pyc file in
\* d/__pycache__ and "__pycache__" is that directory itself.
CacheDirs == { <<"torch">>, <<"torch", "_inductor">>, <<"torch", "_inductor", "codegen">>,
               <<"vllm_pip">>, <<"vllm_pip", "entrypoints", "anthropic">>,
               <<"vllm_src">>, <<"vllm_src", "entrypoints", "anthropic">>,
               <<"ct_base">>, <<"transformers">> }
CacheItems == {[dir |-> d, kind |-> k] : d \in CacheDirs, k \in {"pyc", "__pycache__"}}

Scripts == {"T", "S"}

VARIABLES
  dirs,        \* the optional roots that exist as directories
  fs,          \* path -> [exists, data]
  caches,      \* the cache items on disk
  plan,        \* the script each run executes
  run,         \* number of the current run
  pc,          \* position in the current script
  ri,          \* index into vllm_roots of the loop at pc
  vllm_roots,  \* patch_transformers.py: the roots found
  content,     \* patch_streaming.py: the text of serving.py in memory
  patched,     \* patch_streaming.py: its patched flag
  log,         \* run -> the status lines printed, in order
  writes,      \* every file write so far, in order
  cleared,     \* every cache removal so far, in order
  snap,        \* the files as the run before the current one left them
  crash,       \* run -> the exception that ended it, or "none"
  attempted    \* run -> the (patch, root) pairs whose code was entered

pvars == <<dirs, fs, caches, plan, run, pc, ri, vllm_roots, content, patched,
           log, writes, cleared, snap, crash, attempted>>

\* ============================================================ the runtime guard
\* src/proxy/pyshim/sitecustomize.py: executed by Python at interpreter start
\* (and again by a reload); it rebinds three attributes of two optional
\* modules.

\* The values LLAMA_SWAP_SWEBENCH_TEXT_COMPAT can have; "unset": not in the
\* environment.
EnvValues == {"unset", "1", "0", "true", ""}
Modules == {"tiktoken", "api"}
\* What `import m` does: it works, or it raises.
ImportOutcomes == {"ok", "ModuleNotFoundError", "ImportError"}

\* os.environ.get("LLAMA_SWAP_SWEBENCH_TEXT_COMPAT") != "1" with any other value
\* of the variable taken as the flag.
FlagTruthy(env) == env \notin {"unset", ""}
FlagOn(env) == env = "1"

\* `except Exception` with nothing caught.
CatchesNothing(exc) == FALSE
\* `except Exception`: every outcome of an import but "ok" is an Exception.
Catches(exc) == exc \in {"ModuleNotFoundError", "ImportError"}

\* ---- values passed to the wrapped callables
\* A value is None, a dataset (its columns, each with the data it holds), or
\* something else (a string, a number); "absent" marks a keyword that was not
\* passed.
Candidates == <<"text", "problem_statement", "prompt", "question">>
Columns == {Candidates[i] : i \in DOMAIN Candidates}
NoCols == [c \in {} |-> ""]
None == [kind |-> "None", cols |-> NoCols]
NotPassed == [kind |-> "absent", cols |-> NoCols]
Plain(what) == [kind |-> what, cols |-> NoCols]
Dataset(S) == [kind |-> "dataset", cols |-> [c \in S |-> c]]
Datasets == {Dataset(S) : S \in SUBSET Columns}

\* set(getattr(dataset, "column_names", []) or [])
column_names(dataset) == IF dataset.kind = "dataset" THEN DOMAIN dataset.cols ELSE {}

_pick_text_column(dataset) ==
  LET hit == {i \in DOMAIN Candidates : Candidates[i] \in column_names(dataset)}
  IN IF hit = {} THEN "text" ELSE Candidates[Min(hit)]

\* dataset.add_column(name, data)
add_column(dataset, name, data) ==
  [dataset EXCEPT !.cols = [c \in DOMAIN dataset.cols \cup {name} |->
                              IF c = name THEN data ELSE dataset.cols[c]]]

\* dataset.select(np.argsort(lens)), lens the lengths of dataset[by]: the
\* same columns, the rows in the order of the lengths of column by.
select(dataset, by) == [kind |-> dataset.kind, cols |-> dataset.cols, order |-> by]

\* A call: the positional arguments and the keywords test_dataset and
\* max_cost.
CallOf(args, test_dataset, max_cost) ==
  [args |-> args, test_dataset |-> test_dataset, max_cost |-> max_cost]
NoCall == CallOf(<<>>, NotPassed, NotPassed)

\* kwargs.get("test_dataset")
KwDataset(call) == IF call.test_dataset.kind = "absent" THEN None ELSE call.test_dataset

\* compat_openai_inference with the dataset always put back under the keyword.
PassOnByKeyword(call) ==
  LET dataset == IF KwDataset(call).kind = "None" /\ Len(call.args) > 0
                 THEN call.args[1] ELSE KwDataset(call)
  IN IF dataset.kind # "None" /\ "text" \notin column_names(dataset)
        /\ _pick_text_column(dataset) # "text"
     THEN [call EXCEPT !.test_dataset =
             add_column(dataset, "text", dataset.cols[_pick_text_column(dataset)])]
     ELSE call

\* compat_openai_inference copying the text from the last of the candidate
\* columns the dataset has.
PassOnLastCandidate(call) ==
  LET dataset == IF KwDataset(call).kind = "None" /\ Len(call.args) > 0
                 THEN call.args[1] ELSE KwDataset(call)
      hit == {i \in DOMAIN Candidates : Candidates[i] \in column_names(dataset)}
  IN IF dataset.kind # "None" /\ "text" \notin column_names(dataset)
        /\ _pick_text_column(dataset) # "text"
     THEN LET extended == add_column(dataset, "text", dataset.cols[Candidates[Max(hit)]])
          IN IF Len(call.args) > 0
             THEN [call EXCEPT !.args = <<extended>> \o Tail(call.args)]
             ELSE [call EXCEPT !.test_dataset = extended]
     ELSE call

\* One layer of compat_openai_inference: the call it makes of the callable it
\* stored, given the call it received.
PassOn(call) ==
  LET dataset == IF KwDataset(call).kind = "None" /\ Len(call.args) > 0
                 THEN call.args[1] ELSE KwDataset(call)
  IN IF dataset.kind # "None" /\ "text" \notin column_names(dataset)
        /\ _pick_text_column(dataset) # "text"
     THEN LET extended == add_column(dataset, "text",
                                     dataset.cols[_pick_text_column(dataset)])
          IN IF Len(call.args) > 0
             THEN [call EXCEPT !.args = <<extended>> \o Tail(call.args)]
             ELSE [call EXCEPT !.test_dataset = extended]
     ELSE call

\* A call made of an attribute bound to n layers of wrapper: what reaches the
\* original.
RECURSIVE Through(_, _)
Through(n, call) == IF n = 0 THEN call ELSE Through(n - 1, PassOn(call))

\* How many of n layers called add_column.
RECURSIVE Adapted(_, _)
Adapted(n, call) ==
  IF n = 0 THEN 0
  ELSE (IF PassOn(call) # call THEN 1 ELSE 0) + Adapted(n - 1, PassOn(call))

\* tiktoken.encoding_for_model as tiktoken ships it: a KeyError for a model
\* it does not know.  compat_encoding_for_model: the stored callable, and
\* get_encoding("cl100k_base") when that raises.
EncodingThrough(n, model_name) ==
  IF model_name.kind = "known model" THEN "encoding of the model"
  ELSE IF n = 0 THEN "KeyError" ELSE "cl100k_base"

\* The calls made of api.openai_inference: the dataset comes first among the
\* positional arguments, or under the keyword test_dataset, or (a call the
\* wrapper accepts) a positional argument and the keyword are both given.
ArgValues == Datasets \cup {None, Plain("other")}
Positional(v, n) == <<v>> \o [i \in 1..(n - 1) |-> Plain("positional")]
Calls ==
  {CallOf(Positional(v, n), kw, Plain("max_cost")) :
     v \in ArgValues, n \in 1..MaxArgs, kw \in {NotPassed, None}}
  \cup {CallOf(<<>>, kw, Plain("max_cost")) : kw \in ArgValues \cup {NotPassed}}
  \cup {CallOf(<<v>>, kw, Plain("max_cost")) :
          v \in {Plain("other"), Dataset({"prompt"})}, kw \in Datasets}

VARIABLES
  environ,             \* the value of LLAMA_SWAP_SWEBENCH_TEXT_COMPAT
  importable,          \* module -> what importing it does
  imported,            \* the modules the guard has imported
  encoding_for_model,  \* tiktoken.encoding_for_model: layers of wrapper bound
  openai_inference,    \* api.openai_inference: layers of wrapper bound
  main,                \* api.main: "original" or "compat_main"
  loads,               \* how often the guard module was executed
  raised,              \* the exception that left the guard module, or "none"
  last                 \* the latest call of one of the three callables

gvars == <<environ, importable, imported, encoding_for_model, openai_inference,
           main, loads, raised, last>>

\* A call: the callable, the call as made, the call that reached the original
\* (or the callable compat_main went on to), the layers of wrapper it went
\* through, how often the replaced original was invoked, how many layers
\* adapted the call, and how it ended.
CallRec(fn, given, received, layers, originals, adapted, callee, result) ==
  [fn |-> fn, given |-> given, received |-> received, layers |-> layers,
   originals |-> originals, adapted |-> adapted, callee |-> callee, result |-> result]
NoCallYet == CallRec("none", NoCall, NoCall, 0, 0, 0, "none", "none")

vars == <<pvars, gvars>>

\* ------------------------------------------------------------------ start
\* The guard before its process has started.
GuardAtRest ==
  /\ environ = "unset"
  /\ importable = [m \in Modules |-> "ok"]
  /\ imported = {}
  /\ encoding_for_model = 0
  /\ openai_inference = 0
  /\ main = "original"
  /\ loads = 0
  /\ raised = "none"
  /\ last = NoCallYet

Runs == 1..MaxRuns
Entry(script) == IF script = "T" THEN "roots" ELSE "fix0"

Init ==
  /\ dirs \in SUBSET OptionalRoots
  /\ \E V \in SUBSET Paths :
       /\ Cardinality(V) <= MaxVaried
       /\ \E g \in [V -> 0..MaxChoice] :
            /\ \A p \in V : g[p] <= Len(Fixtures(p))
            /\ fs = [p \in Paths |->
                       IF p[1] \in OptionalRoots /\ p[1] \notin dirs THEN Absent
                       ELSE IF p \in V THEN Content(p, g[p])
                       ELSE Content(p, 1)]
  /\ caches = {c \in CacheItems : c.dir[1] \in OptionalRoots => c.dir[1] \in dirs}
  /\ plan \in [Runs -> Scripts]
  /\ run = 1
  /\ pc = Entry(plan[1])
  /\ ri = 1
  /\ vllm_roots = <<>>
  /\ content = <<>>
  /\ patched = FALSE
  /\ log = [r \in Runs |-> <<>>]
  /\ writes = <<>>
  /\ cleared = <<>>
  /\ snap = fs
  /\ crash = [r \in Runs |-> "none"]
  /\ attempted = [r \in Runs |-> {}]
  /\ GuardAtRest

\* No patch script is running: the tree of an install without vllm and
\* compressed_tensors, untouched.
PatchAtRest ==
  /\ dirs = {}
  /\ fs = [p \in Paths |-> IF p[1] \in OptionalRoots THEN Absent ELSE Content(p, 1)]
  /\ caches = {c \in CacheItems : c.dir[1] \notin OptionalRoots}
  /\ plan = [r \in Runs |-> "T"]
  /\ run = 1
  /\ pc = "not started"
  /\ ri = 1
  /\ vllm_roots = <<>>
  /\ content = <<>>
  /\ patched = FALSE
  /\ log = [r \in Runs |-> <<>>]
  /\ writes = <<>>
  /\ cleared = <<>>
  /\ snap = fs
  /\ crash = [r \in Runs |-> "none"]
  /\ attempted = [r \in Runs |-> {}]

\* ------------------------------------------------------------------ steps
\* An open() for reading or writing, or an os.remove, can raise OSError.
IoFaults == {"none", "read", "write", "remove"}

LogLine(patch, target, r, before) ==
  [patch |-> patch, target |-> target, msg |-> r.msg, alt |-> r.alt,
   wrote |-> r.write, before |-> before, after |-> r.content]

Attempt(patch, target) ==
  attempted' = [attempted EXCEPT ![run] = @ \cup {<<patch, target>>}]

Say(line) == log' = [log EXCEPT ![run] = Append(@, line)]

WriteRec(patch, path, before, after) ==
  [run |-> run, patch |-> patch, path |-> path, before |-> before, after |-> after]

\* A cache removal: the directories searched, the kinds of item removed,
\* whether the removal worked, and how many writes preceded it.
ClearRec(script, tops, kinds, ok, nwrites) ==
  [run |-> run, script |-> script, tops |-> tops, kinds |-> kinds, ok |-> ok,
   nwrites |-> nwrites]

\* An uncaught exception ends the script.
Raise(exc) ==
  /\ pc' = "crashed"
  /\ crash' = [crash EXCEPT ![run] = exc]

\* --------------------------------------------- patch_transformers.py
LoopStages == {"p4", "p7", "p8", "p11"}
\* The stages with the caches cleared before the vllm patches.
ClearFirst(stage) ==
  CASE stage = "roots" -> "p3"
    [] stage = "p3" -> "p5"
    [] stage = "p5" -> "p4"
    [] stage = "p4" -> "p7"
    [] stage = "p7" -> "p8"
    [] stage = "p8" -> "p11"
    [] stage = "p11" -> "done"

NextStage(stage) ==
  CASE stage = "roots" -> "p3"
    [] stage = "p3" -> "p4"
    [] stage = "p4" -> "p7"
    [] stage = "p7" -> "p8"
    [] stage = "p8" -> "p11"
    [] stage = "p11" -> "p5"
    [] stage = "p5" -> "done"

\* Where the script goes after iteration i of stage; a loop over no roots is
\* passed over.
After(stage, i, roots) ==
  IF stage \in LoopStages /\ i < Len(roots)
  THEN <<stage, i + 1>>
  ELSE IF NextStage(stage) \in LoopStages /\ roots = <<>>
       THEN <<"p5", 1>>
       ELSE <<NextStage(stage), 1>>

Goto(stage, i, roots) ==
  /\ pc' = After(stage, i, roots)[1]
  /\ ri' = After(stage, i, roots)[2]

IsDir(root) == root \in dirs

FindRoots ==
  /\ pc = "roots"
  /\ vllm_roots' = SelectSeq(VllmCandidates, IsDir)
  /\ Goto("roots", 1, vllm_roots')
  /\ UNCHANGED <<dirs, fs, caches, plan, run, content, patched, log, writes,
                 cleared, snap, crash, attempted>>
  /\ UNCHANGED gvars

\* The files of CtFiles[1..k] that exist, in walk order.
Walked(k) == SelectSeq(SubSeq(CtFiles, 1, k), LAMBDA p : fs[p].exists)
Patched3(k) == SelectSeq(Walked(k), LAMBDA p : Patch3File(fs[p].data).write)
InSeq(x, seq) == \E i \in DOMAIN seq : seq[i] = x

\* The walk over ct_base up to and including file k.
Patch3Walk(k) ==
  /\ fs' = [p \in Paths |->
              IF InSeq(p, Patched3(k)) THEN File(Patch3File(fs[p].data).content)
              ELSE fs[p]]
  /\ writes' = writes \o
       [i \in DOMAIN Patched3(k) |->
          [run |-> run, patch |-> "Patch 3", path |-> Patched3(k)[i],
           before |-> fs[Patched3(k)[i]].data,
           after |-> Patch3File(fs[Patched3(k)[i]].data).content]]

Patch3 ==
  /\ pc = "p3"
  /\ Attempt("Patch 3", ct_base)
  /\ IF ~IsDir(ct_base)
     THEN /\ Goto("p3", 1, vllm_roots)
          /\ UNCHANGED <<fs, log, writes, crash>>
     ELSE \E io \in IoFaults, k \in DOMAIN CtFiles :
            IF io = "read" /\ fs[CtFiles[k]].exists
            THEN /\ Patch3Walk(k - 1)
                 /\ Raise("OSError")
                 /\ UNCHANGED <<ri, log>>
            ELSE IF io = "write" /\ InSeq(CtFiles[k], Patched3(k))
            THEN /\ Patch3Walk(k - 1)
                 /\ Raise("OSError")
                 /\ UNCHANGED <<ri, log>>
            ELSE /\ Patch3Walk(Len(CtFiles))
                 /\ Say([patch |-> "Patch 3", target |-> ct_base,
                         msg |-> IF Patched3(Len(CtFiles)) # <<>>
                                 THEN Applied ELSE AlreadyOrNotNeeded,
                         alt |-> "", wrote |-> Patched3(Len(CtFiles)) # <<>>,
                         before |-> Flatten([i \in DOMAIN Walked(Len(CtFiles)) |->
                                       fs[Walked(Len(CtFiles))[i]].data]),
                         after |-> Flatten([i \in DOMAIN Walked(Len(CtFiles)) |->
                                       fs'[Walked(Len(CtFiles))[i]].data])])
                 /\ Goto("p3", 1, vllm_roots)
                 /\ UNCHANGED crash
  /\ UNCHANGED <<dirs, caches, plan, run, vllm_roots, content, patched, cleared, snap>>
  /\ UNCHANGED gvars

\* The text of the file at rel under the root of the current iteration.
Target(rel) == fs[Join(vllm_roots[ri], rel)].data

\* One iteration of a `for root in vllm_roots` loop: the file at rel under
\* the root is read, the patch decides (r), the new text is written when r
\* says so, and one line is printed.  A missing file prints nothing.
VllmPatch(stage, patch, rel, r) ==
  /\ pc = stage
  /\ Attempt(patch, vllm_roots[ri])
  /\ LET root == vllm_roots[ri]
         path == Join(root, rel)
     IN IF ~fs[path].exists
        THEN /\ Goto(stage, ri, vllm_roots)
             /\ UNCHANGED <<fs, log, writes, crash>>
        ELSE \E io \in IoFaults :
               IF io = "read" \/ (io = "write" /\ r.write)
               THEN /\ Raise("OSError")
                    /\ UNCHANGED <<fs, log, writes, ri>>
               ELSE /\ fs' = IF r.write THEN [fs EXCEPT ![path] = File(r.content)] ELSE fs
                    /\ writes' = IF r.write
                                 THEN Append(writes, WriteRec(patch, path, fs[path].data, r.content))
                                 ELSE writes
                    /\ Say(LogLine(patch, root, r, fs[path].data))
                    /\ Goto(stage, ri, vllm_roots)
                    /\ UNCHANGED crash
  /\ UNCHANGED <<dirs, caches, plan, run, vllm_roots, content, patched, cleared, snap>>
  /\ UNCHANGED gvars

Patch4 == VllmPatch("p4", "Patch 4", QuantUtilsRel, Patch4Result(Target(QuantUtilsRel)))
Patch7 == VllmPatch("p7", "Patch 7", ModelsUtilsRel, Patch7Result(Target(ModelsUtilsRel)))
Patch8 == VllmPatch("p8", "Patch 8", MoeRel, Patch8Result(Target(MoeRel)))
Patch11 == VllmPatch("p11", "Patch 11", ServingRel, Patch11Result(Target(ServingRel)))

\* find <root> -name '*.pyc' -delete; find <root> -name __pycache__ -type d
\* -exec rm -rf {} +
\* for every root of vllm_roots + [ct_base] that is a directory, then for
\* transformers.  subprocess.run does not check find's exit status: a find
\* that could not remove anything leaves the caches and the script goes on.
Patch5Tops == {vllm_roots[i] : i \in DOMAIN vllm_roots}
                \cup (IF IsDir(ct_base) THEN {ct_base} ELSE {})
                \cup {"transformers"}

Patch5 ==
  /\ pc = "p5"
  /\ Attempt("Patch 5", "")
  /\ \E io \in IoFaults :
       /\ caches' = IF io = "remove" THEN caches
                    ELSE {c \in caches : c.dir[1] \notin Patch5Tops}
       /\ cleared' = Append(cleared,
            ClearRec("T", {<<t>> : t \in Patch5Tops}, {"pyc", "__pycache__"},
                     io # "remove", Len(writes)))
  /\ Say([patch |-> "Patch 5", target |-> "", msg |-> "caches cleared", alt |-> "",
          wrote |-> FALSE, before |-> <<>>, after |-> <<>>])
  /\ Goto("p5", 1, vllm_roots)
  /\ UNCHANGED <<dirs, fs, plan, run, vllm_roots, content, patched, writes, snap, crash>>
  /\ UNCHANGED gvars

\* --------------------------------------------- patch_streaming.py
\* os.walk(top) with os.remove of every *.pyc file: the __pycache__
\* directories stay.
RemovePyc(top) == {c \in caches : ~(c.kind = "pyc" /\ Under(c.dir, top))}

\* Fix 0 with config.py opened for update and no existence test: a missing
\* file is created.
Fix0Creating ==
  /\ pc = "fix0"
  /\ Attempt("Fix 0", "torch")
  /\ LET r == Fix0Result(fs[_ind_cfg_path].data)
     IN /\ fs' = IF r.write THEN [fs EXCEPT ![_ind_cfg_path] = File(r.content)] ELSE fs
        /\ writes' = IF r.write
                     THEN Append(writes, WriteRec("Fix 0", _ind_cfg_path,
                                                  fs[_ind_cfg_path].data, r.content))
                     ELSE writes
        /\ Say(LogLine("Fix 0", "torch", r, fs[_ind_cfg_path].data))
  /\ pc' = "open"
  /\ UNCHANGED <<dirs, caches, plan, run, ri, vllm_roots, content, patched, cleared,
                 snap, crash>>
  /\ UNCHANGED gvars

Fix0 ==
  /\ pc = "fix0"
  /\ Attempt("Fix 0", "torch")
  /\ LET r == Fix0Result(fs[_ind_cfg_path].data)
     IN IF ~fs[_ind_cfg_path].exists
        THEN /\ Say(LogLine("Fix 0", "torch", Res(<<>>, NoTarget, FALSE, ""), <<>>))
             /\ pc' = "open"
             /\ UNCHANGED <<fs, caches, writes, cleared, crash>>
        ELSE \E io \in IoFaults :
               IF io = "read" \/ (io = "write" /\ r.write)
               THEN /\ Raise("OSError")
                    /\ UNCHANGED <<fs, caches, writes, cleared, log>>
               ELSE IF r.write
               THEN /\ fs' = [fs EXCEPT ![_ind_cfg_path] = File(r.content)]
                    /\ writes' = Append(writes, WriteRec("Fix 0", _ind_cfg_path,
                                                         fs[_ind_cfg_path].data, r.content))
                    /\ cleared' = Append(cleared,
                         ClearRec("S", {Dirname(_ind_cfg_path)}, {"pyc"},
                                  io # "remove", Len(writes')))
                    /\ IF io = "remove" /\ RemovePyc(Dirname(_ind_cfg_path)) # caches
                       THEN /\ Raise("OSError")
                            /\ UNCHANGED <<caches, log>>
                       ELSE /\ caches' = RemovePyc(Dirname(_ind_cfg_path))
                            /\ Say(LogLine("Fix 0", "torch", r, fs[_ind_cfg_path].data))
                            /\ pc' = "open"
                            /\ UNCHANGED crash
               ELSE /\ Say(LogLine("Fix 0", "torch", r, fs[_ind_cfg_path].data))
                    /\ pc' = "open"
                    /\ UNCHANGED <<fs, caches, writes, cleared, crash>>
  /\ UNCHANGED <<dirs, plan, run, ri, vllm_roots, content, patched, snap>>
  /\ UNCHANGED gvars

\* with open(fpath) as f: content = f.read()   -- no existence test
OpenServing ==
  /\ pc = "open"
  /\ IF ~fs[fpath].exists
     THEN /\ Raise("FileNotFoundError")
          /\ UNCHANGED <<content, patched>>
     ELSE \E io \in IoFaults :
            IF io = "read"
            THEN /\ Raise("OSError")
                 /\ UNCHANGED <<content, patched>>
            ELSE /\ content' = fs[fpath].data
                 /\ patched' = FALSE
                 /\ pc' = "fix1"
                 /\ UNCHANGED crash
  /\ UNCHANGED <<dirs, fs, caches, plan, run, ri, vllm_roots, log, writes, cleared, snap,
                 attempted>>
  /\ UNCHANGED gvars

\* A fix on the text in memory: the fix decides (r), patched is set when the
\* text was changed, and one line is printed.
MemoryFix(stage, next, patch, r) ==
  /\ pc = stage
  /\ Attempt(patch, "vllm_pip")
  /\ content' = r.content
  /\ patched' = (patched \/ r.write)
  /\ Say(LogLine(patch, "vllm_pip", r, content))
  /\ pc' = next
  /\ UNCHANGED <<dirs, fs, caches, plan, run, ri, vllm_roots, writes, cleared, snap, crash>>
  /\ UNCHANGED gvars

Fix1 == MemoryFix("fix1", "fix2", "Fix 1", Fix1Result(content))
Fix2 == MemoryFix("fix2", "write", "Fix 2", Fix2Result(content))

ServingCacheTop == Dirname(fpath)

WriteServing ==
  /\ pc = "write"
  /\ IF ~patched
     THEN /\ Say([patch |-> "summary", target |-> "vllm_pip", msg |-> "No patches applied",
                  alt |-> "", wrote |-> FALSE, before |-> fs[fpath].data,
                  after |-> fs[fpath].data])
          /\ pc' = "done"
          /\ UNCHANGED <<fs, caches, writes, cleared, crash>>
     ELSE \E io \in IoFaults :
            IF io = "write"
            THEN /\ Raise("OSError")
                 /\ UNCHANGED <<fs, caches, writes, cleared, log>>
            ELSE /\ fs' = [fs EXCEPT ![fpath] = File(content)]
                 /\ writes' = Append(writes, WriteRec("serving.py", fpath,
                                                      fs[fpath].data, content))
                 /\ cleared' = Append(cleared,
                      ClearRec("S", {ServingCacheTop}, {"pyc"}, io # "remove", Len(writes')))
                 /\ IF io = "remove" /\ RemovePyc(ServingCacheTop) # caches
                    THEN /\ Raise("OSError")
                         /\ UNCHANGED <<caches, log>>
                    ELSE /\ caches' = RemovePyc(ServingCacheTop)
                         /\ Say([patch |-> "summary", target |-> "vllm_pip",
                                 msg |-> "PATCHED successfully!", alt |-> "",
                                 wrote |-> TRUE, before |-> fs[fpath].data,
                                 after |-> content])
                         /\ pc' = "done"
                         /\ UNCHANGED crash
  /\ UNCHANGED <<dirs, plan, run, ri, vllm_roots, content, patched, snap, attempted>>
  /\ UNCHANGED gvars

\* --------------------------------------------- the runs
\* The script has ended (normally or by an exception) and the next one of
\* the plan is started; it starts from nothing but the files on disk.
NextRun ==
  /\ pc \in {"done", "crashed"}
  /\ run < MaxRuns
  /\ snap' = fs
  /\ run' = run + 1
  /\ pc' = Entry(plan[run + 1])
  /\ ri' = 1
  /\ vllm_roots' = <<>>
  /\ content' = <<>>
  /\ patched' = FALSE
  /\ UNCHANGED <<dirs, fs, caches, plan, log, writes, cleared, crash, attempted>>
  /\ UNCHANGED gvars

Next ==
  \/ FindRoots
  \/ Patch3
  \/ Patch4
  \/ Patch7
  \/ Patch8
  \/ Patch11
  \/ Patch5
  \/ Fix0
  \/ OpenServing
  \/ Fix1
  \/ Fix2
  \/ WriteServing
  \/ NextRun

Spec == Init /\ [][Next]_vars

\* --------------------------------------------- sitecustomize.py
\* The module body: _patch_swebench_main().
RunGuard ==
  /\ loads < MaxLoads
  /\ loads' = loads + 1
  /\ IF ~FlagOn(environ)
     THEN UNCHANGED <<imported, encoding_for_model, openai_inference, main, raised>>
     ELSE LET tiktoken == importable["tiktoken"]
              api == importable["api"]
          IN IF tiktoken # "ok" /\ ~Catches(tiktoken)
             THEN /\ raised' = tiktoken
                  /\ UNCHANGED <<imported, encoding_for_model, openai_inference, main>>
             ELSE /\ encoding_for_model' =
                       IF tiktoken = "ok" THEN encoding_for_model + 1
                       ELSE encoding_for_model
                  /\ IF api # "ok"
                     THEN /\ raised' = IF Catches(api) THEN raised ELSE api
                          /\ imported' = imported \cup
                               (IF tiktoken = "ok" THEN {"tiktoken"} ELSE {})
                          /\ UNCHANGED <<openai_inference, main>>
                     ELSE /\ imported' = imported \cup {"api"} \cup
                               (IF tiktoken = "ok" THEN {"tiktoken"} ELSE {})
                          /\ openai_inference' = openai_inference + 1
                          /\ main' = "compat_main"
                          /\ UNCHANGED raised
  /\ UNCHANGED <<environ, importable, last>>
  /\ UNCHANGED pvars

\* tiktoken.encoding_for_model(model_name), called by the host program.
CallEncodingForModel ==
  /\ loads > 0
  /\ importable["tiktoken"] = "ok"
  /\ \E model_name \in {Plain("known model"), Plain("unknown model")} :
       last' = CallRec("encoding_for_model",
                       CallOf(<<model_name>>, NotPassed, NotPassed),
                       CallOf(<<model_name>>, NotPassed, NotPassed),
                       encoding_for_model, 1,
                       IF model_name.kind = "unknown model" /\ encoding_for_model > 0
                       THEN 1 ELSE 0,
                       "encoding_for_model",
                       EncodingThrough(encoding_for_model, model_name))
  /\ UNCHANGED <<environ, importable, imported, encoding_for_model, openai_inference,
                 main, loads, raised>>
  /\ UNCHANGED pvars

\* api.openai_inference(*args, **kwargs), called by the host program.
CallOpenaiInference ==
  /\ loads > 0
  /\ importable["api"] = "ok"
  /\ \E call \in Calls :
       last' = CallRec("openai_inference", call, Through(openai_inference, call),
                       openai_inference, 1, Adapted(openai_inference, call),
                       "openai_inference", "returned")
  /\ UNCHANGED <<environ, importable, imported, encoding_for_model, openai_inference,
                 main, loads, raised>>
  /\ UNCHANGED pvars

\* api.main(...), called by the host program.  The original main is swebench's
\* own; compat_main loads the split, picks the text column, sorts by its
\* lengths and calls api.anthropic_inference or api.openai_inference, as bound
\* at the time of the call, with keywords only.
CallMain ==
  /\ loads > 0
  /\ importable["api"] = "ok"
  /\ \E dataset \in Datasets, claude \in BOOLEAN, split_found \in BOOLEAN :
       LET text_col == _pick_text_column(dataset)
           inference_args == CallOf(<<>>, select(dataset, text_col), Plain("max_cost"))
       IN last' =
            IF main = "original"
            THEN CallRec("main", NoCall, NoCall, 0, 1, 0, "original main", "returned")
            ELSE IF ~split_found
            THEN CallRec("main", CallOf(<<>>, dataset, Plain("max_cost")), NoCall,
                         1, 0, 0, "none", "ValueError")
            ELSE IF text_col \notin column_names(dataset)
            THEN CallRec("main", CallOf(<<>>, dataset, Plain("max_cost")), NoCall,
                         1, 0, 0, "none", "KeyError")
            ELSE IF claude
            THEN CallRec("main", inference_args, inference_args, 1, 0, 0,
                         "anthropic_inference", "returned")
            ELSE CallRec("main", inference_args,
                         Through(openai_inference, inference_args), 1, 0,
                         Adapted(openai_inference, inference_args),
                         "openai_inference", "returned")
  /\ UNCHANGED <<environ, importable, imported, encoding_for_model, openai_inference,
                 main, loads, raised>>
  /\ UNCHANGED pvars

\* The guard in a process of its own: any value of the flag, any outcome of
\* the two imports; the patch scripts are not running.
GuardInit ==
  /\ PatchAtRest
  /\ environ \in EnvValues
  /\ importable \in [Modules -> ImportOutcomes]
  /\ imported = {}
  /\ encoding_for_model = 0
  /\ openai_inference = 0
  /\ main = "original"
  /\ loads = 0
  /\ raised = "none"
  /\ last = NoCallYet

GuardNext ==
  \/ RunGuard
  \/ CallEncodingForModel
  \/ CallOpenaiInference
  \/ CallMain

GuardSpec == GuardInit /\ [][GuardNext]_vars

\* ================================================================== claims
\* What the claims speak about, read off the history variables.

\* Run r has ended / has ended without an exception.
Ended(r) == (run = r /\ pc \in {"done", "crashed"}) \/ run > r
Completed(r) == Ended(r) /\ crash[r] = "none"
\* No OSError was injected into run r and every cache removal of it worked.
NoFault(r) ==
  /\ crash[r] # "OSError"
  /\ \A i \in DOMAIN cleared : cleared[i].run = r => cleared[i].ok

TextPatches == {"Patch 3", "Patch 4", "Patch 7", "Patch 8", "Patch 11",
                "Fix 0", "Fix 1", "Fix 2"}
MarkedPatches == TextPatches \ {"Patch 3"}

MarkerOf(patch) ==
  CASE patch = "Patch 4" -> Patch4Marker
    [] patch = "Patch 7" -> Patch7Marker
    [] patch = "Patch 8" -> Patch8Marker
    [] patch \in {"Patch 11", "Fix 1"} -> HasTcMarker
    [] patch = "Fix 2" -> Fix2Marker
    [] patch = "Fix 0" -> Fix0Marker

HasMarker(patch, text) == patch \in MarkedPatches /\ HasText(text, MarkerOf(patch))

HasPattern(patch, text) ==
  CASE patch = "Patch 3" -> Contains(text, ForbidSq) \/ Contains(text, ForbidDq)
    [] patch = "Patch 4" -> Contains(text, old_raise)
    [] patch = "Patch 7" -> Contains(text, old_method)
    [] patch = "Patch 8" -> Contains(text, old_init_015) \/ Contains(text, old_init_012)
    [] patch \in {"Patch 11", "Fix 1"} ->
         AnchorLine(text, ContentCheck) # 0 /\ AnchorLine(text, ToolCallsElif) # 0
    [] patch = "Fix 2" -> Contains(text, old_tool_start)
    [] patch = "Fix 0" -> Contains(text, InstallConfig)

\* The (patch, candidate root) pairs of a script.
PairsOf(script) ==
  IF script = "T"
  THEN {<<"Patch 3", ct_base>>}
         \cup {<<q, VllmCandidates[i]>> :
                 q \in {"Patch 4", "Patch 7", "Patch 8", "Patch 11"},
                 i \in DOMAIN VllmCandidates}
  ELSE {<<"Fix 0", "torch">>, <<"Fix 1", "vllm_pip">>, <<"Fix 2", "vllm_pip">>}

\* The status lines run r printed for a pair.
LinesFor(r, pair) ==
  {i \in DOMAIN log[r] : log[r][i].patch = pair[1] /\ log[r][i].target = pair[2]}

\* C1: content idempotence.  When the same script is run again on the tree a
\* complete run of it left, and also completes, every file is equal to what
\* the first of the two runs left.
C1_ContentIdempotent ==
  (run > 1 /\ plan[run] = plan[run - 1] /\ Completed(run - 1) /\ Completed(run)
     /\ NoFault(run - 1) /\ NoFault(run))
    => fs = snap

\* C2: every patch a complete run reported as applied on a target is reported
\* as already applied for that target by a following complete run of the same
\* script (Patch 3's line 'already patched or not needed' is taken as such a
\* report).
C2_SecondRunReportsAlready ==
  \A r \in Runs :
     (r > 1 /\ plan[r] = plan[r - 1] /\ Completed(r - 1) /\ Completed(r))
       => \A i \in DOMAIN log[r - 1] :
             (log[r - 1][i].patch \in TextPatches /\ log[r - 1][i].msg = Applied)
               => \E j \in DOMAIN log[r] :
                     /\ log[r][j].patch = log[r - 1][i].patch
                     /\ log[r][j].target = log[r - 1][i].target
                     /\ log[r][j].msg \in {Already, AlreadyOrNotNeeded}

\* C3: marker precedence.  A patch attempted on a text that contains its
\* marker is reported as already applied and changes nothing, whether or not
\* the text also contains the pattern.
C3_MarkerPrecedence ==
  \A r \in Runs : \A i \in DOMAIN log[r] :
     HasMarker(log[r][i].patch, log[r][i].before)
       => /\ log[r][i].msg = Already
          /\ ~log[r][i].wrote
          /\ log[r][i].after = log[r][i].before

\* What a patch makes of a text when it changes the first occurrence of its
\* pattern and no other.
FirstAnchor(lines, anchor) ==
  Min({i \in DOMAIN lines : Txt(lines[i]) = anchor})

FirstOnly(patch, alt, text) ==
  CASE patch = "Patch 4" -> Replace(text, old_raise, new_raise, 1)
    [] patch = "Patch 7" -> Replace(text, old_method, new_method, 1)
    [] patch = "Patch 8" /\ alt = "0.15" -> Replace(text, old_init_015, new_init_015, 1)
    [] patch = "Patch 8" /\ alt # "0.15" -> Replace(text, old_init_012, new_init_012, 1)
    [] patch = "Patch 11" ->
         RewriteLines(text, FirstAnchor(text, ContentCheck),
                      FirstAnchor(text, ToolCallsElif), TRUE)
    [] patch = "Fix 1" ->
         RewriteLines(text, FirstAnchor(text, ContentCheck),
                      FirstAnchor(text, ToolCallsElif), FALSE)
    [] patch = "Fix 2" -> Replace(text, old_tool_start, new_tool_start, 1)
    [] patch = "Fix 0" -> Replace(text, InstallConfig, Fix0Added, 1)

\* C4: replacement count.  A patch that is applied changes the first
\* occurrence of its pattern and leaves every later occurrence as it was
\* (stated for the patches with one replacement per pattern; Patch 3, which
\* rewrites two spellings of one setting, is left out).
C4_FirstOccurrenceOnly ==
  \A r \in Runs : \A i \in DOMAIN log[r] :
     (log[r][i].patch \in MarkedPatches /\ log[r][i].msg = Applied
        /\ HasPattern(log[r][i].patch, log[r][i].before))
       => log[r][i].after = FirstOnly(log[r][i].patch, log[r][i].alt, log[r][i].before)

\* C5: no-match outcome.  A patch attempted on an existing file that has
\* neither its marker nor any of its patterns reports no-match, a report of
\* its own, and does not write the file.
C5_NoMatchReported ==
  \A r \in Runs : \A i \in DOMAIN log[r] :
     (log[r][i].patch \in TextPatches /\ log[r][i].msg # NoTarget
        /\ ~HasMarker(log[r][i].patch, log[r][i].before)
        /\ ~HasPattern(log[r][i].patch, log[r][i].before))
       => /\ log[r][i].msg = NoMatch
          /\ ~log[r][i].wrote

\* C6: every write of a file changes the file's content.
C6_WritesChangeContent ==
  \A i \in DOMAIN writes : writes[i].after # writes[i].before

\* C7: missing-target tolerance.  No run is ended by a missing root or a
\* missing target file: a run ends normally or by an injected I/O error.
C7_MissingTargetTolerated ==
  \A r \in Runs : crash[r] \in {"none", "OSError"}

\* C8: outcome reporting is total.  A run that completes has printed exactly
\* one status line, with one of the outcomes, for every (patch, candidate
\* root) pair of its script.
C8_OneOutcomePerPair ==
  \A r \in Runs :
     Completed(r)
       => \A pair \in PairsOf(plan[r]) :
             /\ Cardinality(LinesFor(r, pair)) = 1
             /\ \A i \in LinesFor(r, pair) :
                  log[r][i].msg \in {Applied, Already, NoTarget, NoMatch, AlreadyOrNotNeeded}

\* C9: failure isolation.  Whatever ended a run, the code of every pair of
\* its script whose root exists was entered.
C9_FailureIsolated ==
  \A r \in Runs :
     Ended(r)
       => \A pair \in PairsOf(plan[r]) :
             (pair[2] \in OptionalRoots => pair[2] \in dirs) => pair \in attempted[r]

\* C10: cache invalidation completeness.  When a run into which no fault was
\* injected has completed, no cache item is left under the package tree of a
\* file that the run wrote.
C10_NoCacheLeft ==
  (pc = "done" /\ NoFault(run))
    => \A i \in DOMAIN writes :
          writes[i].run = run
            => ~\E c \in caches : c.dir[1] = writes[i].path[1]

\* C11: a failure during cache invalidation is not fatal.  When a cache
\* removal of a run failed and the run has ended, the run was not ended by
\* an exception, the writes made before the removal are on disk, and the
\* code of every pair of the script whose root exists was entered.
C11_InvalidationFailureNonFatal ==
  \A i \in DOMAIN cleared :
     (~cleared[i].ok /\ Ended(cleared[i].run))
       => /\ crash[cleared[i].run] = "none"
          /\ \A pair \in PairsOf(plan[cleared[i].run]) :
                (pair[2] \in OptionalRoots => pair[2] \in dirs)
                  => pair \in attempted[cleared[i].run]

\* C12: alternative selection of Patch 8.  On a file without the marker the
\* 0.15 pattern is tried first and the 0.12 pattern only when the 0.15
\* pattern is absent; the line printed names the alternative that matched,
\* the text written is the text read with that one alternative's replacement
\* made and nothing else, and a file is handled once per run.
C12_AlternativeSelection ==
  \A r \in Runs :
     /\ \A i \in DOMAIN log[r] :
          (log[r][i].patch = "Patch 8" /\ ~HasText(log[r][i].before, Patch8Marker))
            => IF Contains(log[r][i].before, old_init_015)
               THEN /\ log[r][i].msg = Applied
                    /\ log[r][i].alt = "0.15"
                    /\ log[r][i].after =
                         Replace(log[r][i].before, old_init_015, new_init_015, -1)
               ELSE IF Contains(log[r][i].before, old_init_012)
               THEN /\ log[r][i].msg = Applied
                    /\ log[r][i].alt = "0.12"
                    /\ log[r][i].after =
                         Replace(log[r][i].before, old_init_012, new_init_012, -1)
               ELSE log[r][i].msg # Applied
     /\ \A i \in DOMAIN VllmCandidates :
          Cardinality(LinesFor(r, <<"Patch 8", VllmCandidates[i]>>)) <= 1

\* One run has applied the 0.15 alternative to one root's moe.py and the 0.12
\* alternative to the other root's.
C12_BothAlternativesApplied ==
  \E r \in Runs : \E i, j \in DOMAIN log[r] :
     /\ log[r][i].patch = "Patch 8" /\ log[r][i].alt = "0.15" /\ log[r][i].wrote
     /\ log[r][j].patch = "Patch 8" /\ log[r][j].alt = "0.12" /\ log[r][j].wrote
     /\ log[r][i].target # log[r][j].target

\* The two anchors Fix 1 / Patch 11 rewrite are the `if` and the `elif` of
\* one chain: the last content check, and after it, at its indentation, the
\* last tool_calls elif, which is also the first one after the check.
IsChain(lines) ==
  /\ AnchorLine(lines, ContentCheck) # 0
  /\ AnchorLine(lines, ToolCallsElif) # 0
  /\ ChainElif(lines) = AnchorLine(lines, ToolCallsElif)

\* C13: branch selection after Fix 1 / Patch 11.  In the chain the patch
\* rewrote, a chunk with a content that is not None (the empty string
\* included) and a non-empty tool_calls takes the tool_calls branch; every
\* other chunk takes the branch it took before the patch.
C13_BranchSelection ==
  \A r \in Runs : \A i \in DOMAIN log[r] :
     (log[r][i].patch \in {"Fix 1", "Patch 11"} /\ log[r][i].msg = Applied
        /\ IsChain(log[r][i].before))
       => \A chunk \in Chunks :
             Branch(log[r][i].after, chunk) =
               IF chunk.content # "None" /\ chunk.tool_calls > 0
               THEN "tool_calls"
               ELSE Branch(log[r][i].before, chunk)

\* A chain was patched in which a chunk with empty content and one tool call
\* took the content branch before the patch and takes the tool_calls branch
\* after it.
C13_EmptyContentRerouted ==
  \E r \in Runs : \E i \in DOMAIN log[r] :
     /\ log[r][i].patch \in {"Fix 1", "Patch 11"}
     /\ log[r][i].msg = Applied
     /\ IsChain(log[r][i].before)
     /\ Branch(log[r][i].before, [content |-> "", tool_calls |-> 1]) = "content"
     /\ Branch(log[r][i].after, [content |-> "", tool_calls |-> 1]) = "tool_calls"

\* The roots a patch is bound to.
RootsOf(patch) ==
  CASE patch = "Patch 3" -> {ct_base}
    [] patch \in {"Patch 4", "Patch 7", "Patch 8", "Patch 11"} ->
         {VllmCandidates[i] : i \in DOMAIN VllmCandidates}
    [] patch = "Fix 0" -> {"torch"}
    [] patch = "serving.py" -> {"vllm_pip"}

\* C18: no file is created.  Every write of the current run went to a file
\* that existed when the run started, replaced the text that was read from
\* it, and lies under a root of its patch; and the set of existing files is
\* the one the run started with.
C18_NoFileCreated ==
  /\ \A i \in DOMAIN writes :
       writes[i].run = run
         => /\ snap[writes[i].path].exists
            /\ writes[i].before = snap[writes[i].path].data
            /\ writes[i].path[1] \in RootsOf(writes[i].patch)
  /\ \A p \in Paths : fs[p].exists = snap[p].exists

\* A run has written a file and ended while a target file of its script
\* was missing, under a root that exists or at config.py.
C18_WroteBesideMissingFile ==
  /\ pc = "done"
  /\ \E i \in DOMAIN writes : writes[i].run = run
  /\ \E p \in Paths :
       /\ ~fs[p].exists
       /\ (p[1] \in OptionalRoots => p[1] \in dirs)
       /\ (plan[run] = "S" <=> p = _ind_cfg_path)

\* C19: write-then-invalidate ordering.  No file is written after a cache
\* removal of the same run that covered the file's package tree.
C19_WriteBeforeInvalidate ==
  \A i \in DOMAIN cleared : \A k \in DOMAIN writes :
     (writes[k].run = cleared[i].run
        /\ \E top \in cleared[i].tops : top[1] = writes[k].path[1])
       => k <= cleared[i].nwrites

\* One run removed the caches of a tree after writing a file of it, and then
\* wrote a file of another tree.
C19_WriteAfterOtherTreeCleared ==
  \E i \in DOMAIN cleared : \E k, m \in DOMAIN writes :
     /\ writes[k].run = cleared[i].run
     /\ writes[m].run = cleared[i].run
     /\ k <= cleared[i].nwrites
     /\ \E top \in cleared[i].tops : top[1] = writes[k].path[1]
     /\ m > cleared[i].nwrites

\* ---- the runtime guard (under GuardSpec)

\* C14: runtime guard gating.  While the flag is unset or has a value other
\* than "1", however often the guard module was executed, the three
\* attributes are bound to the originals, the guard has imported no optional
\* module, and no exception has left it.
C14_GuardGated ==
  environ # "1"
    => /\ encoding_for_model = 0
       /\ openai_inference = 0
       /\ main = "original"
       /\ imported = {}
       /\ raised = "none"

\* The guard module was executed with the flag set to a value other than "1"
\* and both modules importable, and a call of api.main then went to the
\* original.
C14_RanWithOtherValue ==
  /\ environ \notin {"1", "unset"}
  /\ loads > 0
  /\ \A m \in Modules : importable[m] = "ok"
  /\ last.fn = "main"
  /\ last.callee = "original main"

\* C15: single application.  However often the guard module is executed in
\* one process, each attribute is bound to at most one layer of wrapper and
\* a call goes through at most one layer.
C15_WrappedOnce ==
  /\ encoding_for_model <= 1
  /\ openai_inference <= 1
  /\ last.layers <= 1

\* C16: a module that cannot be imported.  With the flag set, no exception
\* leaves the guard module whatever the two imports do, and the attributes of
\* a module whose import raised are not rebound.
C16_MissingDependencyTolerated ==
  /\ raised = "none"
  /\ importable["tiktoken"] # "ok" => encoding_for_model = 0
  /\ importable["api"] # "ok" => (openai_inference = 0 /\ main = "original")
  /\ \A m \in imported : importable[m] = "ok"

\* The guard module was executed with the flag set, swebench's module not
\* importable and tiktoken importable: encoding_for_model was wrapped, and a
\* call of it for an unknown model got the default encoding.
C16_RanWithoutSwebench ==
  /\ environ = "1"
  /\ loads > 0
  /\ importable["api"] # "ok"
  /\ importable["tiktoken"] = "ok"
  /\ encoding_for_model > 0
  /\ last.fn = "encoding_for_model"
  /\ last.result = "cl100k_base"

\* C17: delegation.  Every call of a replaced callable invokes the original
\* it replaced.
C17_ReplacementDelegates ==
  (last.fn # "none" /\ last.layers > 0) => last.originals > 0

\* ---- compat_openai_inference
\* The dataset of a call: the test_dataset keyword, or else the first
\* positional argument.
GivenDataset(call) ==
  IF call.test_dataset.kind \notin {"absent", "None"} THEN call.test_dataset
  ELSE IF Len(call.args) > 0 THEN call.args[1]
  ELSE None

\* The column the text is copied from: the first one present of
\* problem_statement, prompt, question; "" when none is.
FirstPresent(dataset) ==
  IF "problem_statement" \in column_names(dataset) THEN "problem_statement"
  ELSE IF "prompt" \in column_names(dataset) THEN "prompt"
  ELSE IF "question" \in column_names(dataset) THEN "question"
  ELSE ""

\* The call is to be passed on as it is: no dataset, a dataset with a text
\* column, or one with none of the three columns.
PassedUnchanged(call) ==
  \/ GivenDataset(call).kind # "dataset"
  \/ "text" \in column_names(GivenDataset(call))
  \/ FirstPresent(GivenDataset(call)) = ""

\* The dataset of the call with the text column added.
Extended(call) ==
  add_column(GivenDataset(call), "text",
             GivenDataset(call).cols[FirstPresent(GivenDataset(call))])

OneAnchor(lines) ==
  (AnchorLine(lines, ContentCheck) # 0) # (AnchorLine(lines, ToolCallsElif) # 0)

BothAnchors(lines) ==
  AnchorLine(lines, ContentCheck) # 0 /\ AnchorLine(lines, ToolCallsElif) # 0

\* C21 as stated: Fix 1 and Patch 11 change the text only when both anchor
\* lines are in it, and whenever exactly one is, the text is left as it was
\* and pattern-not-found is reported.
C21_AllOrNothing ==
  \A r \in Runs : \A i \in DOMAIN log[r] :
     (log[r][i].patch \in {"Fix 1", "Patch 11"} /\ log[r][i].msg # NoTarget)
       => /\ log[r][i].after # log[r][i].before => BothAnchors(log[r][i].before)
          /\ OneAnchor(log[r][i].before)
               => /\ log[r][i].after = log[r][i].before
                  /\ ~log[r][i].wrote
                  /\ log[r][i].msg = NoMatch

\* C21, amended: the text is changed only when both anchor lines are in it;
\* when exactly one is, the text is left as it was, and the report is
\* pattern-not-found when the text does not contain _has_tc and already
\* applied when it does.
C21_AllOrNothingUnlessMarked ==
  \A r \in Runs : \A i \in DOMAIN log[r] :
     (log[r][i].patch \in {"Fix 1", "Patch 11"} /\ log[r][i].msg # NoTarget)
       => /\ log[r][i].after # log[r][i].before => BothAnchors(log[r][i].before)
          /\ OneAnchor(log[r][i].before)
               => /\ log[r][i].after = log[r][i].before
                  /\ ~log[r][i].wrote
                  /\ log[r][i].msg =
                       IF HasText(log[r][i].before, HasTcMarker) THEN Already ELSE NoMatch

\* Patch 11 met a serving.py with the content check and no tool_calls elif,
\* and without _has_tc: it reported pattern-not-found and wrote nothing.
C21_OneAnchorSkipped ==
  \E r \in Runs : \E i \in DOMAIN log[r] :
     /\ log[r][i].patch = "Patch 11"
     /\ AnchorLine(log[r][i].before, ContentCheck) # 0
     /\ AnchorLine(log[r][i].before, ToolCallsElif) = 0
     /\ ~HasText(log[r][i].before, HasTcMarker)
     /\ log[r][i].msg = NoMatch
     /\ log[r][i].after = log[r][i].before

\* ---- the two scripts on the one serving.py
\* What each script makes of the text of serving.py under /usr/local:
\* patch_transformers.py applies Patch 11, patch_streaming.py Fix 1 and then
\* Fix 2.
ByTransformers(text) == Patch11Result(text).content
ByStreaming(text) == Fix2Result(Fix1Result(text).content).content

\* The status line of run r for the tool_calls fix on that file.
ToolCallsFix(r) ==
  {i \in DOMAIN log[r] : /\ log[r][i].patch = (IF plan[r] = "T" THEN "Patch 11" ELSE "Fix 1")
                         /\ log[r][i].target = "vllm_pip"
                         /\ log[r][i].msg # NoTarget}

\* The two runs were one of each script, both ran to their end with no I/O
\* failure, and serving.py was there.
OneOfEach ==
  /\ plan[1] # plan[2]
  /\ Completed(1) /\ Completed(2)
  /\ NoFault(1) /\ NoFault(2)
  /\ ToolCallsFix(1) # {} /\ ToolCallsFix(2) # {}

\* serving.py before the first run, and what the two scripts run in the other
\* order make of it.
ServingAtStart == log[1][CHOOSE i \in ToolCallsFix(1) : TRUE].before
OtherOrder ==
  IF plan[1] = "T" THEN ByTransformers(ByStreaming(ServingAtStart))
  ELSE ByStreaming(ByTransformers(ServingAtStart))

\* C22 as stated: whatever serving.py holds, the two scripts leave the same
\* text in either order, and the tool_calls fix is applied by the first and
\* reported as already applied by the second.
C22_OrderIndependent ==
  OneOfEach
    => /\ fs[fpath].data = OtherOrder
       /\ \A i \in ToolCallsFix(1) : log[1][i].msg = Applied
       /\ \A i \in ToolCallsFix(2) : log[2][i].msg = Already

\* The text with its last line ended by a newline.
NewlineAtEnd(text) ==
  IF text = <<>> THEN text
  ELSE [text EXCEPT ![Len(text)] = L(Ind(@), Txt(@), TRUE)]

\* C22, amended: the two orders leave the same text apart from a newline at
\* the end of the file, and the same text when the file ended in a newline;
\* the fix is applied by the first script and reported as already applied by
\* the second when the file had both anchor lines and not _has_tc, and
\* otherwise both scripts report the same: already applied when the file
\* has _has_tc, pattern-not-found when it has not.
C22_OrderIndependentUpToNewline ==
  OneOfEach
    => /\ NewlineAtEnd(fs[fpath].data) = NewlineAtEnd(OtherOrder)
       /\ (ServingAtStart # <<>> /\ Nl(ServingAtStart[Len(ServingAtStart)]))
            => fs[fpath].data = OtherOrder
       /\ \A i \in ToolCallsFix(1) : \A j \in ToolCallsFix(2) :
            IF BothAnchors(ServingAtStart) /\ ~HasText(ServingAtStart, HasTcMarker)
            THEN log[1][i].msg = Applied /\ log[2][j].msg = Already
            ELSE /\ log[1][i].msg = log[2][j].msg
                 /\ log[1][i].msg =
                      IF HasText(ServingAtStart, HasTcMarker) THEN Already ELSE NoMatch

\* patch_transformers.py and then patch_streaming.py ran on a serving.py with
\* both anchor lines: Patch 11 applied the fix, Fix 1 found it applied, Fix 2
\* changed the file again, and the other order ends in the same text.
C22_TransformersThenStreaming ==
  /\ OneOfEach
  /\ plan[1] = "T"
  /\ \E i \in ToolCallsFix(1) : log[1][i].msg = Applied
  /\ \E j \in ToolCallsFix(2) : log[2][j].msg = Already
  /\ fs[fpath].data # ByTransformers(ServingAtStart)
  /\ fs[fpath].data = OtherOrder

\* ---- compat_main and compat_openai_inference together
\* C23: text column and sort column.  A call of compat_main that goes on to
\* api.openai_inference hands the original openai_inference a dataset with a
\* text column, filled from the column compat_main ordered the rows by; and
\* compat_main fails for want of a column only on a split with none of text,
\* problem_statement, prompt, question.
C23_SortColumnFillsText ==
  (last.fn = "main" /\ last.layers > 0)
    => /\ last.callee = "openai_inference"
            => /\ "text" \in column_names(last.received.test_dataset)
               /\ last.received.test_dataset.cols["text"] = last.received.test_dataset.order
               /\ last.received.test_dataset.order \in column_names(last.given.test_dataset)
       /\ last.result = "KeyError" => column_names(last.given.test_dataset) \cap Columns = {}

\* compat_main was called for a model that is not claude on a split with the
\* columns prompt and question and no text column: the rows were ordered by
\* prompt and the original openai_inference got the text column copied from
\* prompt.
C23_SortedAndFilledFromPrompt ==
  /\ last.fn = "main"
  /\ last.callee = "openai_inference"
  /\ column_names(last.given.test_dataset) = {"prompt", "question"}
  /\ last.given.test_dataset.order = "prompt"
  /\ last.adapted = 1
  /\ last.received.test_dataset.cols["text"] = "prompt"

====
